---- MODULE Spec2Model ----
\* Model of torch/utils/model_dump/__init__.py:
\*   hierarchical_pickle  (the pickle-tree -> JSON-tree normalizer) and
\*   get_model_info       (the archive extractor).
EXTENDS Integers, Sequences, FiniteSets, TLC

VARIABLES
    data,               \* argument of a direct hierarchical_pickle call
    out,                \* its result: a value, a raised exception, or Pending
    archive,            \* zf.infolist(): the entries of the zip file, in order
    limit,              \* extra_file_size_limit
    pc,                 \* position of get_model_info
    idx,                \* index of the entry the current loop is at
    pj,                 \* index of the debug-info pair the inner loop is at
    path_prefix,
    zip_files,
    version,
    model_data,
    interned_strings,   \* dict str -> int, in insertion order
    code_files,         \* dict filename -> code_parts, in insertion order
    code_parts,         \* code_parts of the file the inner loop is at
    extra_files_jsons,
    extra_pickles,
    ret                 \* what get_model_info returned or raised

vars == << data, out, archive, limit, pc, idx, pj, path_prefix, zip_files, version,
           model_data, interned_strings, code_files, code_parts,
           extra_files_jsons, extra_pickles, ret >>

\* ---------------------------------------------------------------- bounds
\* longest generated list / tuple / dict / argument tuple
MaxLen == 2

\* ------------------------------------------------------- Python values
\* A str is a sequence of tokens (atomic substrings): concatenation is \o,
\* startswith / endswith compare token prefixes / suffixes.
None == [k |-> "none"]
PyBool(b) == [k |-> "bool", b |-> b]
PyInt(i) == [k |-> "int", i |-> i]
PyFloat(f) == [k |-> "float", f |-> f]
PyStr(s) == [k |-> "str", s |-> s]
PyList(v) == [k |-> "list", v |-> v]
PyTuple(v) == [k |-> "tuple", v |-> v]
\* a dict is its items in iteration (insertion) order
PyDict(items) == [k |-> "dict", items |-> items]
\* torch.utils.show_pickle.FakeObject: state is None when never set
FakeObject(module, name, args, state) ==
    [k |-> "obj", module |-> module, name |-> name, args |-> args, state |-> state]
FakeClass(module, name) == [k |-> "class", module |-> module, name |-> name]
\* a raised exception, with the source line that raises it
Raise(exc, line) == [k |-> "raise", exc |-> exc, line |-> line]
Pending == [k |-> "pending"]

IsRaise(v) == v.k = "raise"
S(tok) == PyStr(<<tok>>)

Keys(d) == [i \in 1..Len(d.items) |-> d.items[i][1]]
Values(d) == [i \in 1..Len(d.items) |-> d.items[i][2]]

StartsWith(s, p) == Len(s) >= Len(p) /\ SubSeq(s, 1, Len(p)) = p
EndsWith(s, p) == Len(s) >= Len(p) /\ SubSeq(s, Len(s) - Len(p) + 1, Len(s)) = p

\* str.replace(tok, ""): every occurrence of the token is removed
RECURSIVE ReplaceAll(_, _)
ReplaceAll(s, tok) ==
    IF s = <<>> THEN <<>>
    ELSE IF Head(s) = tok THEN ReplaceAll(Tail(s), tok)
    ELSE <<Head(s)>> \o ReplaceAll(Tail(s), tok)

\* tokens made of the letters a-z only
LowerTokens == {"int", "list", "tensor"}

\* f"{data.module}.{data.name}"
TypeName(obj) == obj.module \o <<".">> \o obj.name

TorchPrefix == <<"__torch__", ".">>
RebuildTensorV2 == <<"torch", ".", "_utils", ".", "_rebuild_tensor_v2">>
RestoreTypeTag == <<"torch", ".", "jit", ".", "_pickle", ".", "restore_type_tag">>
BuildPrefix == <<"torch", ".", "jit", ".", "_pickle", ".", "build_">>

\* re.fullmatch(r"torch\.jit\._pickle\.build_[a-z]+list", typename)
IsBuildList(typename) ==
    /\ StartsWith(typename, BuildPrefix)
    /\ LET rest == SubSeq(typename, Len(BuildPrefix) + 1, Len(typename))
       IN  /\ Len(rest) >= 2
           /\ \A i \in 1..Len(rest) : rest[i] \in LowerTokens
           /\ rest[Len(rest)] = "list"

\* isinstance(data, (bool, int, float, str, type(None)))
IsPrimitive(v) == v.k \in {"bool", "int", "float", "str", "none"}

\* ---------------------------------------------- hierarchical_pickle pieces
TupleOutRaw(r) == PyTuple(r.v)
TupleOut(r) == PyDict(<< <<S("__tuple_values__"), r>> >>)

DictOutSwapped(ks, vs) ==
    PyDict(<< <<S("__is_dict__"), PyBool(TRUE)>>, <<S("keys"), vs>>, <<S("values"), ks>> >>)
DictOut(ks, vs) ==
    PyDict(<< <<S("__is_dict__"), PyBool(TRUE)>>, <<S("keys"), ks>>, <<S("values"), vs>> >>)

ModuleOut(typename, st) ==
    PyDict(<< <<S("__module_type__"), PyStr(typename)>>, <<S("state"), st>> >>)

\* assert data.args == ()
ModuleArgsOkAny(args) == TRUE
ModuleArgsOk(args) == args = <<>>

\* the asserts on storage, lines 106-117; the line of the first one that fails, 0 if none
StorageAssert(storage) ==
    IF storage.k # "obj" THEN 106
    ELSE IF storage.module # <<"pers">> THEN 107
    ELSE IF storage.name # <<"obj">> THEN 108
    ELSE IF storage.state # None THEN 109
    \* storage.args is modelled as a tuple always (line 110)
    ELSE IF Len(storage.args) # 1 THEN 111
    ELSE IF storage.args[1].k # "tuple" THEN 112
    ELSE IF Len(storage.args[1].v) # 5 THEN 113
    ELSE IF storage.args[1].v[1] # S("storage") THEN 114
    ELSE IF storage.args[1].v[2].k # "class" THEN 115
    ELSE IF storage.args[1].v[2].module # <<"torch">> THEN 116
    ELSE IF ~EndsWith(storage.args[1].v[2].name, <<"Storage">>) THEN 117
    ELSE 0

\* [sa[1].name.replace("Storage", "")] + list(sa[2:])
StorageInfoKeepName(sa) == PyList(<<PyStr(sa[2].name)>> \o SubSeq(sa, 3, Len(sa)))
StorageInfo(sa) ==
    PyList(<<PyStr(ReplaceAll(sa[2].name, "Storage"))>> \o SubSeq(sa, 3, Len(sa)))

TensorOut(storage_info, offset, size, stride, requires_grad, hooks) ==
    PyDict(<< <<S("__tensor_v2__"),
              PyList(<<storage_info, offset, size, stride, requires_grad>>)>> >>)

\* raise Exception(f"Can't prepare fake object of type for JS: {typename}")
UnknownObjectPassed(obj) == obj
UnknownObject(obj) == Raise("Exception", 131)

AnyRaise(rs) == \E i \in 1..Len(rs) : IsRaise(rs[i])
FirstRaise(rs) ==
    rs[CHOOSE i \in 1..Len(rs) : IsRaise(rs[i]) /\ \A j \in 1..(i - 1) : ~IsRaise(rs[j])]

RECURSIVE hierarchical_pickle(_)
hierarchical_pickle(d) ==
    IF IsPrimitive(d) THEN d
    ELSE IF d.k = "list" THEN
        LET rs == [i \in 1..Len(d.v) |-> hierarchical_pickle(d.v[i])]
        IN  IF AnyRaise(rs) THEN FirstRaise(rs) ELSE PyList(rs)
    ELSE IF d.k = "tuple" THEN
        LET r == hierarchical_pickle(PyList(d.v))
        IN  IF IsRaise(r) THEN r ELSE TupleOut(r)
    ELSE IF d.k = "dict" THEN
        LET ks == hierarchical_pickle(PyList(Keys(d)))
        IN  IF IsRaise(ks) THEN ks
            ELSE LET vs == hierarchical_pickle(PyList(Values(d)))
                 IN  IF IsRaise(vs) THEN vs ELSE DictOut(ks, vs)
    ELSE IF d.k = "obj" THEN
        IF StartsWith(d.module, TorchPrefix) THEN
            IF ~ModuleArgsOk(d.args) THEN Raise("AssertionError", 98)
            ELSE LET st == hierarchical_pickle(d.state)
                 IN  IF IsRaise(st) THEN st ELSE ModuleOut(TypeName(d), st)
        ELSE IF TypeName(d) = RebuildTensorV2 THEN
            IF d.state # None THEN Raise("AssertionError", 104)
            ELSE IF Len(d.args) # 6 THEN Raise("ValueError", 105)
            ELSE IF StorageAssert(d.args[1]) # 0
                 THEN Raise("AssertionError", StorageAssert(d.args[1]))
            ELSE TensorOut(StorageInfo(d.args[1].args[1].v),
                           d.args[2], d.args[3], d.args[4], d.args[5], d.args[6])
        ELSE IF TypeName(d) = RestoreTypeTag THEN
            IF d.state # None THEN Raise("AssertionError", 122)
            ELSE IF Len(d.args) # 2 THEN Raise("ValueError", 123)
            ELSE IF d.args[2].k # "str" THEN Raise("AssertionError", 124)
            ELSE hierarchical_pickle(d.args[1])
        ELSE IF IsBuildList(TypeName(d)) THEN
            IF d.state # None THEN Raise("AssertionError", 127)
            ELSE IF Len(d.args) # 1 THEN Raise("ValueError", 128)
            ELSE IF d.args[1].k # "list" THEN Raise("AssertionError", 129)
            ELSE hierarchical_pickle(d.args[1])
        ELSE UnknownObject(d)
    ELSE Raise("Exception", 132)


\* ------------------------------------------------ inputs of the normalizer
SeqsUpTo(X, n) == UNION {[1..m -> X] : m \in 0..n}

SmallAtoms == {None, PyInt(1), S("a")}
Atoms == SmallAtoms \cup {PyBool(TRUE), PyFloat("1.5")}

\* a dict key must be hashable: no list, no dict, tuples of hashables only
RECURSIVE Hashable(_)
Hashable(v) ==
    /\ v.k \notin {"list", "dict"}
    /\ v.k = "tuple" => \A i \in 1..Len(v.v) : Hashable(v.v[i])

DistinctKeys(items) ==
    \A i, j \in 1..Len(items) : i # j => items[i][1] # items[j][1]

DictsOver(K, V) ==
    {PyDict(items) : items \in {it \in SeqsUpTo(K \X V, MaxLen) : DistinctKeys(it)}}

\* (module, name) of the opaque objects the decoder hands over
UserModule == [module |-> <<"__torch__", ".", "m">>, name |-> <<"Foo">>]
NearUserModule == [module |-> <<"__torch__">>, name |-> <<"Foo">>]
TensorCall == [module |-> <<"torch", ".", "_utils">>, name |-> <<"_rebuild_tensor_v2">>]
TypeTagCall == [module |-> <<"torch", ".", "jit", ".", "_pickle">>,
                name |-> <<"restore_type_tag">>]
IntListCall == [module |-> <<"torch", ".", "jit", ".", "_pickle">>,
                name |-> <<"build_", "int", "list">>]
ListListCall == [module |-> <<"torch", ".", "jit", ".", "_pickle">>,
                 name |-> <<"build_", "list", "list">>]
BareListCall == [module |-> <<"torch", ".", "jit", ".", "_pickle">>,
                 name |-> <<"build_", "list">>]
UpperListCall == [module |-> <<"torch", ".", "jit", ".", "_pickle">>,
                  name |-> <<"build_", "Int", "list">>]
FooBar == [module |-> <<"foo">>, name |-> <<"Bar">>]
PersObj == [module |-> <<"pers">>, name |-> <<"obj">>]
CallNames == {UserModule, NearUserModule, TensorCall, TypeTagCall, IntListCall,
              ListListCall, BareListCall, UpperListCall, FooBar, PersObj}

Obj(n, args, state) == FakeObject(n.module, n.name, args, state)

\* the persistent-storage argument of a tensor rebuild, well-formed or not
StorageOf(tag, cls, rest) ==
    Obj(PersObj, << PyTuple(<<tag, cls>> \o rest) >>, None)
StorageRest == << S("0"), S("cpu"), PyInt(4) >>
StorageClasses ==
    {FakeClass(<<"torch">>, nm) :
        nm \in {<<"Float", "Storage">>, <<"Storage">>, <<"Storage", "X", "Storage">>}}
GoodStorages == {StorageOf(S("storage"), c, StorageRest) : c \in StorageClasses}
BadStorages ==
    { S("a"),
      Obj(FooBar, << PyTuple(<<S("storage"), FakeClass(<<"torch">>, <<"Float", "Storage">>)>>
                             \o StorageRest) >>, None),
      FakeObject(<<"pers">>, <<"obj">>,
                 << PyTuple(<<S("storage"), FakeClass(<<"torch">>, <<"Float", "Storage">>)>>
                            \o StorageRest) >>, S("a")),
      Obj(PersObj, <<>>, None),
      Obj(PersObj, << PyList(<<>>) >>, None),
      StorageOf(S("storage"), FakeClass(<<"torch">>, <<"Float", "Storage">>), <<S("0")>>),
      StorageOf(S("a"), FakeClass(<<"torch">>, <<"Float", "Storage">>), StorageRest),
      StorageOf(S("storage"), S("a"), StorageRest),
      StorageOf(S("storage"), FakeClass(<<"numpy">>, <<"Float", "Storage">>), StorageRest),
      StorageOf(S("storage"), FakeClass(<<"torch">>, <<"Float">>), StorageRest),
      StorageOf(S("storage"), FakeClass(<<"torch">>, <<"Storage", "X">>), StorageRest) }

Tensor(storage, offset, size, stride, requires_grad, hooks) ==
    Obj(TensorCall, <<storage, offset, size, stride, requires_grad, hooks>>, None)
Sizes == {PyTuple(<<PyInt(1)>>), PyList(<<PyInt(1)>>), PyTuple(<<>>)}
Hooks == {PyDict(<<>>), Obj(FooBar, <<>>, None)}
Tensors ==
    {Tensor(st, PyInt(1), sz, sz, PyBool(TRUE), h) :
        st \in GoodStorages \cup BadStorages, sz \in Sizes, h \in Hooks}
    \cup {Obj(TensorCall, <<st>> \o a, None) :
            st \in GoodStorages, a \in SeqsUpTo({PyInt(1)}, MaxLen)}
    \cup {FakeObject(TensorCall.module, TensorCall.name,
                     <<st, PyInt(1), PyTuple(<<>>), PyTuple(<<>>), PyBool(TRUE), PyDict(<<>>)>>,
                     S("a")) : st \in GoodStorages}

\* the values of depth one
Level1 ==
    Atoms
    \cup {PyList(s) : s \in SeqsUpTo(SmallAtoms, MaxLen)}
    \cup {PyTuple(s) : s \in SeqsUpTo(SmallAtoms, MaxLen)}
    \cup DictsOver(SmallAtoms, SmallAtoms)
    \cup {Obj(n, a, st) : n \in CallNames, a \in SeqsUpTo(SmallAtoms, MaxLen),
                          st \in {None, S("a")}}
    \cup {Obj(n, <<PyList(s)>>, None) :
            n \in {IntListCall, ListListCall}, s \in SeqsUpTo(SmallAtoms, MaxLen)}
    \cup Tensors
    \cup {FakeClass(<<"torch">>, <<"Float", "Storage">>)}

\* one more level around a value
Wrap(x) ==
    { PyList(<<x>>), PyList(<<x, Obj(FooBar, <<>>, None)>>), PyList(<<S("a"), x>>),
      PyTuple(<<x>>), PyTuple(<<PyInt(1), x>>),
      PyDict(<< <<S("a"), x>> >>), PyDict(<< <<PyInt(1), x>>, <<S("a"), PyInt(1)>> >>),
      Obj(UserModule, <<>>, x), Obj(UserModule, <<x>>, None),
      Obj(TypeTagCall, <<x, S("t")>>, None), Obj(TypeTagCall, <<x, PyInt(1)>>, None),
      Obj(IntListCall, <<x>>, None), Obj(IntListCall, <<PyList(<<x>>)>>, None),
      Obj(FooBar, <<x>>, None),
      Tensor(StorageOf(S("storage"), FakeClass(<<"torch">>, <<"Float", "Storage">>),
                       StorageRest),
             x, PyTuple(<<PyInt(1)>>), PyTuple(<<PyInt(1)>>), PyBool(FALSE), PyDict(<<>>)),
      Tensor(StorageOf(S("storage"), FakeClass(<<"torch">>, <<"Float", "Storage">>),
                       << S("0"), x, PyInt(4) >>),
             PyInt(0), x, PyTuple(<<PyInt(1)>>), x, x) }
    \cup (IF Hashable(x) THEN {PyDict(<< <<x, PyInt(1)>> >>)} ELSE {})

Inputs == Level1 \cup UNION {Wrap(x) : x \in Level1}

\* --------------------------------------------------- the normalizer alone
Idle ==
    /\ archive = <<>>
    /\ limit = 0
    /\ idx = 0
    /\ pj = 0
    /\ path_prefix = None
    /\ zip_files = <<>>
    /\ version = None
    /\ model_data = Pending
    /\ interned_strings = <<>>
    /\ code_files = <<>>
    /\ code_parts = <<>>
    /\ extra_files_jsons = <<>>
    /\ extra_pickles = <<>>
    /\ ret = Pending

InitNorm ==
    /\ data \in Inputs
    /\ out = Pending
    /\ pc = "normalize"
    /\ Idle

\* out = hierarchical_pickle(data)
Normalize ==
    /\ pc = "normalize"
    /\ out' = hierarchical_pickle(data)
    /\ pc' = "normalized"
    /\ UNCHANGED << data, archive, limit, idx, pj, path_prefix, zip_files, version,
                    model_data, interned_strings, code_files, code_parts,
                    extra_files_jsons, extra_pickles, ret >>

NextNorm == Normalize

SpecNorm == InitNorm /\ [][NextNorm]_vars


\* ------------------------------------------------------ the zip archive
\* A file name is its "/"-separated segments and its extension, a sequence of
\* dotted suffixes: m/code/f.py.debug_pkl is path <<"m","code","f">>,
\* ext <<".py",".debug_pkl">>. Every generated name has two segments or more.
Name(path, ext) == [path |-> path, ext |-> ext]
ZipInfo(filename, file_size, content) ==
    [filename |-> filename, compress_type |-> 0, compress_size |-> file_size,
     file_size |-> file_size, content |-> content]

\* what an entry holds
Bytes(b) == [k |-> "bytes", b |-> b]
Pickle(value, rendered_len) == [k |-> "pickle", value |-> value, rendered_len |-> rendered_len]
BadPickle == [k |-> "badpickle"]
JsonText(value) == [k |-> "json", value |-> value]
BadJson == [k |-> "badjson"]
DebugPickle(info) == [k |-> "debug", info |-> info]
\* one record of a debug_pkl: (start, ((s_text, s_file, s_line), s_start, s_end))
DebugRecord(start, s_text, s_file, s_line, s_start, s_end) ==
    [start |-> start, s_text |-> s_text, s_file |-> s_file, s_line |-> s_line,
     s_start |-> s_start, s_end |-> s_end]

DEFAULT_EXTRA_FILE_SIZE_LIMIT == 16384

\* re.sub("/.*", "", zi.filename)
Prefix(filename) == filename.path[1]

\* zf.NameToInfo: a name opens the last entry that carries it; 0 is KeyError
Lookup(zf, filename) ==
    IF \E i \in 1..Len(zf) : zf[i].filename = filename
    THEN CHOOSE i \in 1..Len(zf) :
            /\ zf[i].filename = filename
            /\ \A j \in (i + 1)..Len(zf) : zf[j].filename # filename
    ELSE 0

\* d[key] = value on an insertion-ordered dict
DictSet(d, key, value) ==
    IF \E i \in 1..Len(d) : d[i][1] = key
    THEN [i \in 1..Len(d) |-> IF d[i][1] = key THEN <<key, value>> ELSE d[i]]
    ELSE Append(d, <<key, value>>)
DictHas(d, key) == \E i \in 1..Len(d) : d[i][1] = key
DictGet(d, key) == d[CHOOSE i \in 1..Len(d) : d[i][1] = key][2]
DictKeys(d) == [i \in 1..Len(d) |-> d[i][1]]

\* bytes are the tokens "a", "b" (ASCII), "C3", "A9" (the two bytes of a
\* two-byte character), "\n"; characters are "a", "b", "\n" and the two-byte "e'"
Utf8Width(ch) == IF ch = "e'" THEN 2 ELSE 1
RECURSIVE Utf8Len(_)
Utf8Len(s) == IF s = <<>> THEN 0 ELSE Utf8Width(Head(s)) + Utf8Len(Tail(s))

BadBytes == <<"?">>
\* bytes.decode("utf-8"); BadBytes stands for UnicodeDecodeError
RECURSIVE Decode(_)
Decode(b) ==
    IF b = <<>> THEN <<>>
    ELSE IF Head(b) \in {"a", "b", "3", "\n"} THEN
        LET r == Decode(Tail(b)) IN IF r = BadBytes THEN BadBytes ELSE <<Head(b)>> \o r
    ELSE IF Head(b) = "C3" /\ Len(b) >= 2 /\ b[2] = "A9" THEN
        LET r == Decode(Tail(Tail(b))) IN IF r = BadBytes THEN BadBytes ELSE <<"e'">> \o r
    ELSE BadBytes

\* str.strip()
RECURSIVE LStrip(_)
LStrip(s) == IF s # <<>> /\ Head(s) = "\n" THEN LStrip(Tail(s)) ELSE s
RECURSIVE RStrip(_)
RStrip(s) ==
    IF s # <<>> /\ s[Len(s)] = "\n" THEN RStrip(SubSeq(s, 1, Len(s) - 1)) ELSE s
Strip(s) == RStrip(LStrip(s))

Min(a, b) == IF a < b THEN a ELSE b
\* raw_code[start:end], start and end not negative
Slice(raw, start, end) == SubSeq(raw, Min(start, Len(raw)) + 1, Min(end, Len(raw)))

\* interned_strings[s] = len(interned_strings) when s is new
InternedOffByOne(table, s) ==
    IF DictHas(table, s) THEN table ELSE Append(table, <<s, Len(table) + 1>>)
Interned(table, s) ==
    IF DictHas(table, s) THEN table ELSE Append(table, <<s, Len(table)>>)
\* the value ist(s) returns
Ist(table, s) == DictGet(Interned(table, s), s)

\* len(s_text) != len(s_text.encode("utf-8"))
BytesDifferNever(s_text) == FALSE
BytesDiffer(s_text) == Len(s_text) # Utf8Len(s_text)

\* zi.file_size > extra_file_size_limit
OverLimitInclusive(size, lim) == size >= lim
OverLimit(size, lim) == size > lim

\* extra_files_json_pattern.fullmatch(zi.filename)
IsExtraJson(prefix, filename) ==
    /\ Len(filename.path) >= 3
    /\ filename.path[1] = prefix
    /\ filename.path[2] = "extra"
    /\ EndsWith(filename.ext, <<".json">>)

\* os.path.basename(zi.filename) not in always_render_pickles
AlwaysRender(filename) ==
    filename.path[Len(filename.path)] = "bytecode" /\ filename.ext = <<".pkl">>

\* the prefix check of one entry
PrefixMismatchIgnored(found, prefix) == FALSE
PrefixMismatch(found, prefix) == found # None /\ found # S(prefix)

\* --------------------------------------------------------- get_model_info
\* The title and the file size of the report (lines 145-157) depend on nothing
\* below and are left out of the report.
NormalizerIdle == data = None /\ out = Pending

\* raise: the exception leaves get_model_info, nothing is returned
Raised(exc, line) ==
    /\ pc' = "raised"
    /\ ret' = Raise(exc, line)

ZipFilesEntry(zi) ==
    [filename |-> zi.filename, compression |-> zi.compress_type,
     compressed_size |-> zi.compress_size, file_size |-> zi.file_size]

\* lines 162-173, one entry of zf.infolist()
PrefixStep ==
    /\ pc = "prefix"
    /\ idx <= Len(archive)
    /\ IF PrefixMismatch(path_prefix, Prefix(archive[idx].filename))
       THEN /\ Raised("Exception", 167)
            /\ UNCHANGED << idx, path_prefix, zip_files >>
       ELSE /\ path_prefix' = IF path_prefix = None
                              THEN S(Prefix(archive[idx].filename)) ELSE path_prefix
            /\ zip_files' = Append(zip_files, ZipFilesEntry(archive[idx]))
            /\ idx' = idx + 1
            /\ UNCHANGED << pc, ret >>
    /\ UNCHANGED << data, out, archive, limit, pj, version, model_data, interned_strings,
                    code_files, code_parts, extra_files_jsons, extra_pickles >>

VersionName == Name(<<path_prefix.s[1], "version">>, <<>>)
DataName == Name(<<path_prefix.s[1], "data">>, <<".pkl">>)

\* lines 175-176
ReadVersion ==
    /\ pc = "prefix"
    /\ idx > Len(archive)
    /\ IF path_prefix = None
       THEN Raised("AssertionError", 175) /\ UNCHANGED version
       ELSE IF Lookup(archive, VersionName) = 0
       THEN Raised("KeyError", 176) /\ UNCHANGED version
       ELSE LET c == archive[Lookup(archive, VersionName)].content
            IN  IF c.k # "bytes" \/ Decode(c.b) = BadBytes
                THEN Raised("UnicodeDecodeError", 176) /\ UNCHANGED version
                ELSE /\ version' = PyStr(Strip(Decode(c.b)))
                     /\ pc' = "data"
                     /\ UNCHANGED ret
    /\ UNCHANGED << data, out, archive, limit, idx, pj, path_prefix, zip_files, model_data,
                    interned_strings, code_files, code_parts, extra_files_jsons,
                    extra_pickles >>

\* lines 178-189
LoadData ==
    /\ pc = "data"
    /\ IF Lookup(archive, DataName) = 0
       THEN Raised("KeyError", 178)
            /\ UNCHANGED << model_data, idx, interned_strings, code_files >>
       ELSE LET c == archive[Lookup(archive, DataName)].content
            IN  IF c.k # "pickle"
                THEN Raised("UnpicklingError", 179)
                     /\ UNCHANGED << model_data, idx, interned_strings, code_files >>
                ELSE IF IsRaise(hierarchical_pickle(c.value))
                THEN /\ pc' = "raised"
                     /\ ret' = hierarchical_pickle(c.value)
                     /\ UNCHANGED << model_data, idx, interned_strings, code_files >>
                ELSE /\ model_data' = hierarchical_pickle(c.value)
                     /\ interned_strings' = <<>>
                     /\ code_files' = <<>>
                     /\ idx' = 1
                     /\ pc' = "code"
                     /\ UNCHANGED ret
    /\ UNCHANGED << data, out, archive, limit, pj, path_prefix, zip_files, version,
                    code_parts, extra_files_jsons, extra_pickles >>

DebugName(filename) == Name(filename.path, filename.ext \o <<".debug_pkl">>)
\* raw_code and debug_info of the code file the loop is at
raw_code == archive[idx].content.b
debug_info == archive[Lookup(archive, DebugName(archive[idx].filename))].content.info

\* lines 195-203, one entry of zf.infolist()
CodeFileStep ==
    /\ pc = "code"
    /\ idx <= Len(archive)
    /\ IF ~EndsWith(archive[idx].filename.ext, <<".py">>)
       THEN idx' = idx + 1 /\ UNCHANGED << pc, ret, pj, code_parts >>
       ELSE IF Lookup(archive, DebugName(archive[idx].filename)) = 0
       THEN Raised("KeyError", 200) /\ UNCHANGED << idx, pj, code_parts >>
       ELSE IF archive[Lookup(archive, DebugName(archive[idx].filename))].content.k # "debug"
       THEN Raised("UnpicklingError", 202) /\ UNCHANGED << idx, pj, code_parts >>
       ELSE /\ code_parts' = <<>>
            /\ pj' = 1
            /\ pc' = "parts"
            /\ UNCHANGED << idx, ret >>
    /\ UNCHANGED << data, out, archive, limit, path_prefix, zip_files, version, model_data,
                    interned_strings, code_files, extra_files_jsons, extra_pickles >>

\* the source text and span of a record after lines 213-216
SpanText(di) == IF BytesDiffer(di.s_text) THEN <<>> ELSE di.s_text
SpanStart(di) == IF BytesDiffer(di.s_text) THEN 0 ELSE di.s_start
SpanEnd(di) == IF BytesDiffer(di.s_text) THEN 0 ELSE di.s_end

\* line 218: the record of the pair (di, di_next)
CodePart(table, raw, di, di_next) ==
    << Decode(Slice(raw, di.start, di_next.start)),
       Ist(table, di.s_file),
       di.s_line,
       Ist(Interned(table, di.s_file), SpanText(di)),
       SpanStart(di),
       SpanEnd(di) >>

\* lines 204-218, one pair of zip(debug_info, debug_info[1:])
CodePartStep ==
    /\ pc = "parts"
    /\ pj < Len(debug_info)
    /\ IF ~(debug_info[pj + 1].start > debug_info[pj].start)
       THEN Raised("AssertionError", 207)
            /\ UNCHANGED << pj, code_parts, interned_strings >>
       ELSE IF Decode(Slice(raw_code, debug_info[pj].start, debug_info[pj + 1].start)) = BadBytes
       THEN Raised("UnicodeDecodeError", 218)
            /\ UNCHANGED << pj, code_parts, interned_strings >>
       ELSE /\ code_parts' = Append(code_parts,
                    CodePart(interned_strings, raw_code, debug_info[pj], debug_info[pj + 1]))
            /\ interned_strings' =
                    Interned(Interned(interned_strings, debug_info[pj].s_file),
                             SpanText(debug_info[pj]))
            /\ pj' = pj + 1
            /\ UNCHANGED << pc, ret >>
    /\ UNCHANGED << data, out, archive, limit, idx, path_prefix, zip_files, version,
                    model_data, code_files, extra_files_jsons, extra_pickles >>

\* line 220
CodeFileDone ==
    /\ pc = "parts"
    /\ pj >= Len(debug_info)
    /\ code_files' = DictSet(code_files, archive[idx].filename, code_parts)
    /\ idx' = idx + 1
    /\ pc' = "code"
    /\ UNCHANGED << data, out, archive, limit, pj, path_prefix, zip_files, version,
                    model_data, interned_strings, code_parts, extra_files_jsons,
                    extra_pickles, ret >>

\* lines 222-223
CodeFilesDone ==
    /\ pc = "code"
    /\ idx > Len(archive)
    /\ extra_files_jsons' = <<>>
    /\ idx' = 1
    /\ pc' = "json"
    /\ UNCHANGED << data, out, archive, limit, pj, path_prefix, zip_files, version,
                    model_data, interned_strings, code_files, code_parts, extra_pickles,
                    ret >>

\* lines 224-232, one entry of zf.infolist()
JsonStep ==
    /\ pc = "json"
    /\ idx <= Len(archive)
    /\ IF ~IsExtraJson(path_prefix.s[1], archive[idx].filename)
       THEN idx' = idx + 1 /\ UNCHANGED << pc, ret, extra_files_jsons >>
       ELSE IF OverLimit(archive[idx].file_size, limit)
       THEN idx' = idx + 1 /\ UNCHANGED << pc, ret, extra_files_jsons >>
       ELSE IF archive[idx].content.k # "json"
       THEN Raised("JSONDecodeError", 231) /\ UNCHANGED << idx, extra_files_jsons >>
       ELSE /\ extra_files_jsons' = DictSet(extra_files_jsons, archive[idx].filename,
                                             archive[idx].content.value)
            /\ idx' = idx + 1
            /\ UNCHANGED << pc, ret >>
    /\ UNCHANGED << data, out, archive, limit, pj, path_prefix, zip_files, version,
                    model_data, interned_strings, code_files, code_parts, extra_pickles >>

\* lines 234-237
JsonsDone ==
    /\ pc = "json"
    /\ idx > Len(archive)
    /\ extra_pickles' = <<>>
    /\ idx' = 1
    /\ pc' = "pkl"
    /\ UNCHANGED << data, out, archive, limit, pj, path_prefix, zip_files, version,
                    model_data, interned_strings, code_files, code_parts,
                    extra_files_jsons, ret >>

\* lines 238-254, one entry of zf.infolist()
PklStep ==
    /\ pc = "pkl"
    /\ idx <= Len(archive)
    /\ IF ~EndsWith(archive[idx].filename.ext, <<".pkl">>)
       THEN idx' = idx + 1 /\ UNCHANGED << pc, ret, extra_pickles >>
       ELSE IF archive[idx].content.k # "pickle"
       THEN Raised("UnpicklingError", 245) /\ UNCHANGED << idx, extra_pickles >>
       ELSE IF ~AlwaysRender(archive[idx].filename)
               /\ archive[idx].content.rendered_len > limit
       THEN idx' = idx + 1 /\ UNCHANGED << pc, ret, extra_pickles >>
       ELSE /\ extra_pickles' = DictSet(extra_pickles, archive[idx].filename,
                                         archive[idx].content)
            /\ idx' = idx + 1
            /\ UNCHANGED << pc, ret >>
    /\ UNCHANGED << data, out, archive, limit, pj, path_prefix, zip_files, version,
                    model_data, interned_strings, code_files, code_parts,
                    extra_files_jsons >>

\* lines 257-267
Return ==
    /\ pc = "pkl"
    /\ idx > Len(archive)
    /\ ret' = [k |-> "report",
               version |-> version,
               zip_files |-> zip_files,
               interned_strings |-> DictKeys(interned_strings),
               code_files |-> code_files,
               model_data |-> model_data,
               extra_files_jsons |-> extra_files_jsons,
               extra_pickles |-> extra_pickles]
    /\ pc' = "done"
    /\ UNCHANGED << data, out, archive, limit, idx, pj, path_prefix, zip_files, version,
                    model_data, interned_strings, code_files, code_parts,
                    extra_files_jsons, extra_pickles >>

\* --------------------------------------------------- inputs of the extractor
\* longest tail of extra entries of a generated archive
MaxExtra == 2
\* most records of a generated debug_pkl
MaxDebug == 3

Limits == {0, DEFAULT_EXTRA_FILE_SIZE_LIMIT}

VersionEntry(prefix) == ZipInfo(Name(<<prefix, "version">>, <<>>), 2, Bytes(<<"3", "\n">>))
DataEntry(content) == ZipInfo(Name(<<"m", "data">>, <<".pkl">>), 1, content)
GoodData == DataEntry(Pickle(PyTuple(<<PyInt(1)>>), 1))

Bases ==
    { <<VersionEntry("m"), GoodData>>,
      <<GoodData, VersionEntry("m")>>,
      <<VersionEntry("n"), GoodData>>,
      <<GoodData>>,
      <<VersionEntry("m")>>,
      <<ZipInfo(Name(<<"m", "version">>, <<>>), 1, Bytes(<<"A9">>)), GoodData>>,
      <<VersionEntry("m"), DataEntry(BadPickle)>>,
      <<VersionEntry("m"), DataEntry(Pickle(Obj(FooBar, <<>>, None), 1))>>,
      <<>> }

ExtraJson == Name(<<"m", "extra", "a">>, <<".json">>)
ExtraPool(lim) ==
    {ZipInfo(ExtraJson, sz, c) : sz \in {lim, lim + 1}, c \in {JsonText(PyInt(1)), BadJson}}
    \cup { ZipInfo(Name(<<"m", "extra", "sub", "b">>, <<".json">>), lim, JsonText(None)),
           ZipInfo(Name(<<"m", "other", "a">>, <<".json">>), lim, JsonText(None)),
           ZipInfo(Name(<<"m", "extra">>, <<".json">>), lim, JsonText(None)),
           ZipInfo(Name(<<"n", "extra", "a">>, <<".json">>), lim, JsonText(None)),
           ZipInfo(Name(<<"m", "bytecode">>, <<".pkl">>), 1, Pickle(None, lim + 1)),
           ZipInfo(Name(<<"m", "constants">>, <<".pkl">>), 1, Pickle(None, lim)),
           ZipInfo(Name(<<"m", "constants">>, <<".pkl">>), 1, Pickle(None, lim + 1)) }

RawCode == <<"a", "C3", "A9", "b">>
\* a code file whose second and third bytes are no character
BrokenRawCode == <<"a", "C3", "b", "b">>
DebugRecords ==
    { DebugRecord(st, tx, fl, 7, 1, 2) :
        st \in {0, 1, 3}, tx \in {<<"a", "b">>, <<"a", "e'">>}, fl \in {<<"f">>, <<"g">>} }
CodeName == Name(<<"m", "code", "f">>, <<".py">>)
OtherCodeName == Name(<<"m", "code", "g">>, <<".py">>)
CodeFile(filename, raw, info) ==
    << ZipInfo(filename, Len(raw), Bytes(raw)),
       ZipInfo(DebugName(filename), 1, DebugPickle(info)) >>
OtherCodeFile ==
    CodeFile(OtherCodeName, RawCode,
             << DebugRecord(0, <<"a", "e'">>, <<"g">>, 7, 1, 2),
                DebugRecord(1, <<"a", "b">>, <<"f">>, 8, 1, 2),
                DebugRecord(3, <<"a", "b">>, <<"f">>, 9, 1, 2) >>)
CodeFiles ==
    { CodeFile(CodeName, RawCode, info) : info \in SeqsUpTo(DebugRecords, MaxDebug) }
    \cup { CodeFile(CodeName, raw, info) \o OtherCodeFile :
             raw \in {RawCode, BrokenRawCode}, info \in SeqsUpTo(DebugRecords, 2) }
    \cup { OtherCodeFile \o OtherCodeFile,
           << ZipInfo(CodeName, 1, Bytes(<<"a">>)) >>,
           << ZipInfo(CodeName, 1, Bytes(<<"a">>)),
              ZipInfo(DebugName(CodeName), 1, BadPickle) >> }

Archives(lim) ==
    {b \o e : b \in Bases, e \in SeqsUpTo(ExtraPool(lim), MaxExtra)}
    \cup IF lim = DEFAULT_EXTRA_FILE_SIZE_LIMIT
         THEN {<<VersionEntry("m"), GoodData>> \o c : c \in CodeFiles}
         ELSE {}

Init ==
    /\ NormalizerIdle
    /\ limit \in Limits
    /\ archive \in Archives(limit)
    /\ pc = "prefix"
    /\ idx = 1
    /\ pj = 0
    /\ path_prefix = None
    /\ zip_files = <<>>
    /\ version = None
    /\ model_data = Pending
    /\ interned_strings = <<>>
    /\ code_files = <<>>
    /\ code_parts = <<>>
    /\ extra_files_jsons = <<>>
    /\ extra_pickles = <<>>
    /\ ret = Pending

Next ==
    \/ PrefixStep
    \/ ReadVersion
    \/ LoadData
    \/ CodeFileStep
    \/ CodePartStep
    \/ CodeFileDone
    \/ CodeFilesDone
    \/ JsonStep
    \/ JsonsDone
    \/ PklStep
    \/ Return

Spec == Init /\ [][Next]_vars

\* ------------------------------------------------- claims on the normalizer
Normalized == pc = "normalized"

IsUserModule(v) == v.k = "obj" /\ StartsWith(v.module, TorchPrefix)
IsTensorCall(v) == v.k = "obj" /\ ~IsUserModule(v) /\ TypeName(v) = RebuildTensorV2
IsTypeTagCall(v) == v.k = "obj" /\ ~IsUserModule(v) /\ TypeName(v) = RestoreTypeTag
IsBuildListCall(v) == v.k = "obj" /\ ~IsUserModule(v) /\ IsBuildList(TypeName(v))
Unrecognized(v) ==
    /\ v.k = "obj"
    /\ ~IsUserModule(v) /\ ~IsTensorCall(v) /\ ~IsTypeTagCall(v) /\ ~IsBuildListCall(v)

SeqRange(s) == {s[i] : i \in 1..Len(s)}

\* the nodes of a tree the transform recurses into: list and tuple elements,
\* dict keys and values, a module object's state, the first argument of a
\* type-tag or typed-list call; never the arguments of a tensor rebuild
RECURSIVE Visited(_)
Visited(v) ==
    {v} \cup
    UNION { Visited(c) : c \in
        IF v.k \in {"list", "tuple"} THEN SeqRange(v.v)
        ELSE IF v.k = "dict" THEN SeqRange(Keys(v)) \cup SeqRange(Values(v))
        ELSE IF IsUserModule(v) THEN {v.state}
        ELSE IF (IsTypeTagCall(v) \/ IsBuildListCall(v)) /\ Len(v.args) >= 1 THEN {v.args[1]}
        ELSE {} }

\* C1: an input holding, at a place the transform recurses into, an opaque
\* object of none of the four recognized kinds makes the whole normalization
\* raise; it returns neither a partial tree nor None.
C1_UnrecognizedAborts ==
    (Normalized /\ \E n \in Visited(data) : Unrecognized(n)) => IsRaise(out)

C1_Witness ==
    /\ Normalized
    /\ data.k = "dict"
    /\ \E n \in Visited(data) : Unrecognized(n) /\ n # data
    /\ out = Raise("Exception", 131)

\* only primitives, lists, tuples and dicts
RECURSIVE Plain(_)
Plain(v) ==
    \/ IsPrimitive(v)
    \/ v.k \in {"list", "tuple"} /\ \A i \in 1..Len(v.v) : Plain(v.v[i])
    \/ v.k = "dict" /\ \A i \in 1..Len(v.items) : Plain(v.items[i][1]) /\ Plain(v.items[i][2])

\* o is the normal form of the plain value v
RECURSIVE NormalFormOf(_, _)
NormalFormOf(o, v) ==
    IF IsPrimitive(v) THEN o = v
    ELSE IF v.k = "list" THEN
        /\ o.k = "list"
        /\ Len(o.v) = Len(v.v)
        /\ \A i \in 1..Len(v.v) : NormalFormOf(o.v[i], v.v[i])
    ELSE IF v.k = "tuple" THEN
        /\ o.k = "dict"
        /\ Keys(o) = << S("__tuple_values__") >>
        /\ o.items[1][2].k = "list"
        /\ Len(o.items[1][2].v) = Len(v.v)
        /\ \A i \in 1..Len(v.v) : NormalFormOf(o.items[1][2].v[i], v.v[i])
    ELSE
        /\ v.k = "dict"
        /\ o.k = "dict"
        /\ Keys(o) = << S("__is_dict__"), S("keys"), S("values") >>
        /\ o.items[1][2] = PyBool(TRUE)
        /\ o.items[2][2].k = "list"
        /\ o.items[3][2].k = "list"
        /\ Len(o.items[2][2].v) = Len(v.items)
        /\ Len(o.items[3][2].v) = Len(v.items)
        /\ \A i \in 1..Len(v.items) :
              /\ NormalFormOf(o.items[2][2].v[i], v.items[i][1])
              /\ NormalFormOf(o.items[3][2].v[i], v.items[i][2])

\* C2: on an input of primitives, lists, tuples and dicts only, a tuple becomes
\* {__tuple_values__: [...]}, a dict becomes {__is_dict__: true, keys, values}
\* with keys[i], values[i] the normal forms of the i-th item in iteration
\* order, a list keeps its length and order, a primitive is returned unchanged.
C2_PlainStructure ==
    (Normalized /\ Plain(data)) => (~IsRaise(out) /\ NormalFormOf(out, data))

C2_Witness ==
    /\ Normalized
    /\ data.k = "dict"
    /\ Len(data.items) = 2
    /\ data.items[1][2].k = "tuple"
    /\ out.k = "dict"

\* primitives, lists and str-keyed dicts only
RECURSIVE Json(_)
Json(v) ==
    \/ IsPrimitive(v)
    \/ v.k = "list" /\ \A i \in 1..Len(v.v) : Json(v.v[i])
    \/ v.k = "dict" /\ \A i \in 1..Len(v.items) :
                            v.items[i][1].k = "str" /\ Json(v.items[i][2])

IsTensorOut(v) == v.k = "dict" /\ Keys(v) = << S("__tensor_v2__") >>

\* as Json, but nothing is asked of what a __tensor_v2__ entry carries after
\* the storage type name
RECURSIVE JsonButTensors(_)
JsonButTensors(v) ==
    \/ IsPrimitive(v)
    \/ v.k = "list" /\ \A i \in 1..Len(v.v) : JsonButTensors(v.v[i])
    \/ /\ IsTensorOut(v)
       /\ v.items[1][2].k = "list"
       /\ Len(v.items[1][2].v) = 5
       /\ v.items[1][2].v[1].k = "list"
       /\ v.items[1][2].v[1].v[1].k = "str"
    \/ /\ v.k = "dict"
       /\ ~IsTensorOut(v)
       /\ \A i \in 1..Len(v.items) :
             v.items[i][1].k = "str" /\ JsonButTensors(v.items[i][2])

\* C3 as stated: every node of a returned tree is a primitive, a list or a
\* str-keyed dict, also inside the fields of a normalized tensor rebuild.
C3_AllJson == (Normalized /\ ~IsRaise(out)) => Json(out)

\* C3 amended: every node of a returned tree outside the __tensor_v2__ entries is
\* a primitive, a list or a str-keyed dict; a __tensor_v2__ entry is a list of 5
\* whose first element is a list starting with a str.
C3_JsonOutsideTensors == (Normalized /\ ~IsRaise(out)) => JsonButTensors(out)

C3_Witness ==
    /\ Normalized
    /\ data.k = "tuple"
    /\ Len(data.v) = 2
    /\ IsTensorCall(data.v[2])
    /\ ~IsRaise(out)
    /\ ~Json(out)

WellFormedTensor(v) ==
    /\ IsTensorCall(v)
    /\ v.state = None
    /\ Len(v.args) = 6
    /\ StorageAssert(v.args[1]) = 0

NotStorage(tok) == tok # "Storage"
StorageTuple(v) == v.args[1].args[1].v

\* C4 as stated: a well-formed tensor rebuild normalizes to a 5-element array
\* [[storage type name without its "Storage" suffix, ...rest], offset, size,
\* stride, requires_grad].
C4_FiveElementArray ==
    (Normalized /\ WellFormedTensor(data)) =>
        /\ out.k = "list"
        /\ Len(out.v) = 5
        /\ out.v[1] = PyList(<< PyStr(SubSeq(StorageTuple(data)[2].name, 1,
                                             Len(StorageTuple(data)[2].name) - 1)) >>
                             \o SubSeq(StorageTuple(data), 3, 5))
        /\ SubSeq(out.v, 2, 5) = SubSeq(data.args, 2, 5)

\* C4 amended: a well-formed tensor rebuild normalizes to the dict
\* {__tensor_v2__: [[name, ...rest], offset, size, stride, requires_grad]}: name
\* is the storage class name with every "Storage" in it removed, rest the last
\* three elements of the persistent-storage tuple, and offset, size, stride,
\* requires_grad the call's arguments as they are; hooks is left out.
C4_TensorEntry ==
    (Normalized /\ WellFormedTensor(data)) =>
        /\ IsTensorOut(out)
        /\ out.items[1][2].k = "list"
        /\ Len(out.items[1][2].v) = 5
        /\ out.items[1][2].v[1] =
              PyList(<< PyStr(SelectSeq(StorageTuple(data)[2].name, NotStorage)) >>
                     \o SubSeq(StorageTuple(data), 3, 5))
        /\ SubSeq(out.items[1][2].v, 2, 5) = SubSeq(data.args, 2, 5)

C4_Witness ==
    /\ Normalized
    /\ WellFormedTensor(data)
    /\ StorageTuple(data)[2].name = <<"Storage", "X", "Storage">>
    /\ data.args[6] # PyDict(<<>>)
    /\ IsTensorOut(out)

\* C5 as stated: an object of a "__torch__." module is accepted only with empty
\* args and a state; with args or without a state the normalization raises.
C5_ArgsOrNoStateAborts ==
    (Normalized /\ IsUserModule(data)) =>
        /\ (data.args # <<>> \/ data.state = None) => IsRaise(out)
        /\ ~IsRaise(out) => (data.args = <<>> /\ data.state # None)

\* C5 amended: an object of a "__torch__." module is accepted only with empty
\* args: with args the normalization raises at the assertion; its state is not
\* checked, and without one the result is {__module_type__: name, state: None}.
C5_ArgsAbortStateFree ==
    (Normalized /\ IsUserModule(data)) =>
        /\ data.args # <<>> => out = Raise("AssertionError", 98)
        /\ (data.args = <<>> /\ data.state = None) =>
              out = PyDict(<< <<S("__module_type__"), PyStr(TypeName(data))>>,
                              <<S("state"), None>> >>)
        /\ ~IsRaise(out) => data.args = <<>>

C5_Witness ==
    /\ Normalized
    /\ IsUserModule(data)
    /\ data.args = <<>>
    /\ data.state = None
    /\ ~IsRaise(out)


\* --------------------------------------------------- claims on the extractor
Mismatched(zf) ==
    \E i \in 1..Len(zf) : Prefix(zf[i].filename) # Prefix(zf[1].filename)

\* C6: an archive with an entry whose first path segment differs from the first
\* entry's makes get_model_info raise at the prefix check: no report is
\* returned, and the version, data.pkl, the code files and the extras are not
\* touched before.
C6_MismatchAborts ==
    Mismatched(archive) =>
        /\ pc \in {"prefix", "raised"}
        /\ pc = "raised" => ret = Raise("Exception", 167)
        /\ pc = "prefix" => ret = Pending
        /\ version = None
        /\ model_data = Pending
        /\ code_files = <<>>
        /\ extra_files_jsons = <<>>
        /\ extra_pickles = <<>>

C6_Witness ==
    /\ Mismatched(archive)
    /\ Lookup(archive, Name(<<"m", "version">>, <<>>)) # 0
    /\ Lookup(archive, Name(<<"m", "data">>, <<".pkl">>)) # 0
    /\ Prefix(archive[1].filename) = Prefix(archive[2].filename)
    /\ pc = "raised"
    /\ Len(zip_files) >= 2

InfoOf(zf, filename) == zf[Lookup(zf, DebugName(filename))].content.info

\* the strings handed to ist, in order, by the first n pairs of a debug_info
RECURSIVE PairLog(_, _)
PairLog(info, n) ==
    IF n = 0 THEN <<>>
    ELSE PairLog(info, n - 1) \o << info[n].s_file, SpanText(info[n]) >>

\* ... and by the code files among the first n entries
RECURSIVE FileLog(_, _)
FileLog(zf, n) ==
    IF n = 0 THEN <<>>
    ELSE FileLog(zf, n - 1) \o
         IF EndsWith(zf[n].filename.ext, <<".py">>) /\ Len(InfoOf(zf, zf[n].filename)) > 0
         THEN PairLog(InfoOf(zf, zf[n].filename), Len(InfoOf(zf, zf[n].filename)) - 1)
         ELSE <<>>

Interning == pc \in {"code", "parts", "json", "pkl", "done"}
\* every string interned so far in this run, in order
InternLog ==
    IF pc = "code" THEN FileLog(archive, idx - 1)
    ELSE IF pc = "parts" THEN FileLog(archive, idx - 1) \o PairLog(debug_info, pj - 1)
    ELSE FileLog(archive, Len(archive))

\* how many distinct strings come before the first occurrence of s
FirstSeen(log, s) ==
    LET first == CHOOSE i \in 1..Len(log) : log[i] = s /\ \A j \in 1..(i - 1) : log[j] # s
    IN  Cardinality({log[j] : j \in 1..(first - 1)})

\* the records emitted for a code file agree with the table on the file tag
FileIndexed(parts, info) ==
    \A j \in 1..Len(parts) : parts[j][2] = DictGet(interned_strings, info[j].s_file)

\* C7: the interning table gives each distinct string the index of its first
\* appearance among all interned strings, the indices are 0..n-1, spans with
\* the same source-file tag carry the same index, and the interned_strings
\* list of the report holds each string at its index.
C7_FirstSeenIndex ==
    Interning =>
        /\ Len(interned_strings) = Cardinality(SeqRange(InternLog))
        /\ \A s \in SeqRange(InternLog) :
              /\ DictHas(interned_strings, s)
              /\ DictGet(interned_strings, s) = FirstSeen(InternLog, s)
        /\ {interned_strings[i][2] : i \in 1..Len(interned_strings)}
              = 0..(Len(interned_strings) - 1)
        /\ pc = "parts" => FileIndexed(code_parts, debug_info)
        /\ \A f \in 1..Len(code_files) :
              FileIndexed(code_files[f][2], InfoOf(archive, code_files[f][1]))
        /\ pc = "done" =>
              \A i \in 1..Len(interned_strings) :
                  ret.interned_strings[interned_strings[i][2] + 1] = interned_strings[i][1]

C7_Witness ==
    /\ pc = "done"
    /\ Len(ret.interned_strings) = 3
    /\ \E f \in 1..Len(code_files) :
          /\ Len(code_files[f][2]) = 2
          /\ code_files[f][2][1][2] = code_files[f][2][2][2]
          /\ code_files[f][2][1][4] = 1
          /\ code_files[f][2][2][4] = 2

\* the record emitted for the pair that starts at di, in a file of bytes raw
SpanEmitted(rec, raw, di, di_next) ==
    /\ rec[1] = Decode(Slice(raw, di.start, di_next.start))
    /\ interned_strings[rec[2] + 1][1] = di.s_file
    /\ rec[3] = di.s_line
    /\ IF Len(di.s_text) # Utf8Len(di.s_text)
       THEN /\ interned_strings[rec[4] + 1][1] = <<>>
            /\ rec[5] = 0
            /\ rec[6] = 0
       ELSE /\ interned_strings[rec[4] + 1][1] = di.s_text
            /\ rec[5] = di.s_start
            /\ rec[6] = di.s_end

SpansEmitted(parts, raw, info) ==
    \A j \in 1..Len(parts) : SpanEmitted(parts[j], raw, info[j], info[j + 1])

\* C9: a pair whose source text has more UTF-8 bytes than characters yields a
\* record with span 0..0 and the empty source text, its decoded text, file
\* index and line kept; the records of the other pairs keep their source text
\* and span; every pair gone through has its record, and the loop raises only
\* on offsets that do not increase or on bytes that are no UTF-8.
C9_MultiByteSpanZeroed ==
    /\ pc = "parts" =>
          /\ Len(code_parts) = pj - 1
          /\ SpansEmitted(code_parts, raw_code, debug_info)
    /\ Interning =>
          \A f \in 1..Len(code_files) :
              /\ Len(code_files[f][2]) =
                    IF InfoOf(archive, code_files[f][1]) = <<>> THEN 0
                    ELSE Len(InfoOf(archive, code_files[f][1])) - 1
              /\ SpansEmitted(code_files[f][2],
                              archive[Lookup(archive, code_files[f][1])].content.b,
                              InfoOf(archive, code_files[f][1]))
    /\ (pc = "raised" /\ ret = Raise("AssertionError", 207)) =>
          debug_info[pj + 1].start <= debug_info[pj].start
    /\ (pc = "raised" /\ ret = Raise("UnicodeDecodeError", 218)) =>
          Decode(Slice(raw_code, debug_info[pj].start, debug_info[pj + 1].start)) = BadBytes

C9_Witness ==
    /\ pc = "parts"
    /\ Len(code_parts) = 2
    /\ Len(debug_info[1].s_text) # Utf8Len(debug_info[1].s_text)
    /\ Len(debug_info[2].s_text) = Utf8Len(debug_info[2].s_text)
    /\ code_parts[1][5] = 0
    /\ code_parts[2][5] = 1

\* C8: an extra/*.json entry within the size limit whose content is no JSON
\* does not end the run: the entry is left out and a report is produced.
C8_MalformedJsonSkipped ==
    ~(pc = "raised" /\ ret = Raise("JSONDecodeError", 231))

\* the json loop has dealt with entry i
JsonHandled(i) ==
    \/ pc = "json" /\ i < idx
    \/ pc \in {"pkl", "done"}
    \/ pc = "raised" /\ ret.line = 245
    \/ pc = "raised" /\ ret.line = 231 /\ i <= idx

\* C10: an entry matching <prefix>/extra/*.json whose content parses is in
\* extra_files_jsons when its size is at most the limit (at the limit too); one
\* over the limit is passed over, never read, and the run goes on; nothing but
\* matching entries within the limit is in extra_files_jsons.
C10_SizeLimit ==
    /\ \A i \in 1..Len(archive) :
          (JsonHandled(i) /\ IsExtraJson(path_prefix.s[1], archive[i].filename)) =>
              /\ (archive[i].file_size <= limit /\ archive[i].content.k = "json") =>
                    DictHas(extra_files_jsons, archive[i].filename)
              /\ archive[i].file_size > limit =>
                    ~(pc = "raised" /\ ret.line = 231 /\ idx = i)
    /\ \A e \in 1..Len(extra_files_jsons) :
          \E i \in 1..Len(archive) :
              /\ archive[i].filename = extra_files_jsons[e][1]
              /\ IsExtraJson(path_prefix.s[1], archive[i].filename)
              /\ archive[i].file_size <= limit

C10_Witness ==
    /\ pc = "done"
    /\ limit = DEFAULT_EXTRA_FILE_SIZE_LIMIT
    /\ \E i, j \in 1..Len(archive) :
          /\ IsExtraJson("m", archive[i].filename)
          /\ archive[i].file_size = limit
          /\ DictHas(ret.extra_files_jsons, archive[i].filename)
          /\ IsExtraJson("m", archive[j].filename)
          /\ archive[j].file_size = limit + 1
          /\ archive[j].content = BadJson
          /\ ~DictHas(ret.extra_files_jsons, archive[j].filename)

====
